---- MODULE Spec2Model ----
(***************************************************************************)
(* LetterRing (src/app.py): a spelling-bee style word puzzle.  The model   *)
(* holds the Streamlit session state, the part of the page the last script *)
(* run rendered, and one action per script run of main(): the first load,  *)
(* a letter-button click, Submit, Show Pangrams and New Game.              *)
(*                                                                         *)
(* A word is a sequence of one-character strings.                          *)
(***************************************************************************)
EXTENDS Integers, Sequences, FiniteSets, TLC

VARIABLES
    started,       \* "letters" in st.session_state
    seed,          \* st.session_state["seed"]
    letters,       \* st.session_state["letters"], a list
    mandatory,     \* st.session_state["mandatory"]
    valid_words,   \* st.session_state["valid_words"], a sorted list
    wordset,       \* st.session_state["wordset"], a set
    found,         \* st.session_state["found"], a list
    score,         \* st.session_state["score"]
    guess_input,   \* st.session_state["guess_input"], the text box
    show_pangram,  \* st.session_state["show_pangram"]
    ui_letters,    \* labels of the letter buttons the last run rendered
    ui_mandatory,  \* letter of the "Mandatory letter" indicator of the last run
    ui_pangrams,   \* words of the "Pangram found" banner of the last run
    message,       \* st.warning / st.error / st.success of handle_submit in the last run
    milestone,     \* st.balloons and the applause were emitted in the last run
    run,           \* what triggered the last script run
    submitted      \* the text handle_submit read from the box in the last run

session == <<started, seed, letters, mandatory, valid_words, wordset, found,
             score, guess_input, show_pangram>>
page == <<ui_letters, ui_mandatory, ui_pangrams, message, milestone>>
trigger == <<run, submitted>>
vars == <<session, page, trigger>>

----------------------------------------------------------------------------
(* Program constants *)

SEEDS ==
    << <<"R","A","I","N","B","O","W">>,              \*  1 RAINBOW
       <<"S","I","L","E","N","C","E">>,              \*  2 SILENCE
       <<"C","A","P","T","U","R","E">>,              \*  3 CAPTURE
       <<"N","E","T","W","O","R","K">>,              \*  4 NETWORK
       <<"O","R","C","H","A","R","D">>,              \*  5 ORCHARD
       <<"T","R","E","A","S","O","N">>,              \*  6 TREASON
       <<"B","A","L","A","N","C","E">>,              \*  7 BALANCE
       <<"H","A","R","M","O","N","Y">>,              \*  8 HARMONY
       <<"L","I","B","R","A","R","Y">>,              \*  9 LIBRARY
       <<"M","O","U","N","T","A","I","N">>,          \* 10 MOUNTAIN
       <<"F","A","N","T","A","S","Y">>,              \* 11 FANTASY
       <<"T","R","I","A","N","G","L","E">>,          \* 12 TRIANGLE
       <<"N","O","T","E","B","O","O","K">>,          \* 13 NOTEBOOK
       <<"F","I","R","E","P","L","A","C","E">>,      \* 14 FIREPLACE
       <<"S","U","N","L","I","G","H","T">>,          \* 15 SUNLIGHT
       <<"P","A","I","N","T","E","R">>,              \* 16 PAINTER
       <<"C","A","R","T","O","O","N">>,              \* 17 CARTOON
       <<"M","I","R","A","C","L","E">>,              \* 18 MIRACLE
       <<"F","O","R","E","I","G","N">>,              \* 19 FOREIGN
       <<"G","L","A","C","I","E","R">>,              \* 20 GLACIER
       <<"W","H","I","S","P","E","R">>,              \* 21 WHISPER
       <<"J","O","U","R","N","A","L">>,              \* 22 JOURNAL
       <<"K","I","T","C","H","E","N">>,              \* 23 KITCHEN
       <<"M","O","N","S","T","E","R">>,              \* 24 MONSTER
       <<"P","I","C","T","U","R","E">>,              \* 25 PICTURE
       <<"R","O","C","K","E","T","S">>,              \* 26 ROCKETS
       <<"S","C","A","R","L","E","T">>,              \* 27 SCARLET
       <<"T","H","E","A","T","E","R">>,              \* 28 THEATER
       <<"V","I","C","T","O","R","Y">>,              \* 29 VICTORY
       <<"W","E","A","L","T","H","Y">>,              \* 30 WEALTHY
       <<"A","D","V","E","N","T","U","R","E">>,      \* 31 ADVENTURE
       <<"B","R","I","L","L","I","A","N","T">>,      \* 32 BRILLIANT
       <<"C","R","E","A","T","I","O","N">>,          \* 33 CREATION
       <<"D","I","S","C","O","V","E","R">>,          \* 34 DISCOVER
       <<"E","L","E","G","A","N","C","E">>,          \* 35 ELEGANCE
       <<"F","R","E","E","D","O","M">>,              \* 36 FREEDOM
       <<"G","A","R","D","E","N","S">>,              \* 37 GARDENS
       <<"H","O","R","I","Z","O","N">>,              \* 38 HORIZON
       <<"I","M","A","G","I","N","E">>,              \* 39 IMAGINE
       <<"J","U","N","C","T","I","O","N">>,          \* 40 JUNCTION
       <<"K","I","N","G","D","O","M","S">>,          \* 41 KINGDOMS
       <<"L","A","N","G","U","A","G","E">>,          \* 42 LANGUAGE
       <<"M","O","M","E","N","T","S">>,              \* 43 MOMENTS
       <<"N","A","T","U","R","A","L">>,              \* 44 NATURAL
       <<"P","A","S","S","I","O","N">>,              \* 45 PASSION
       <<"Q","U","A","N","T","U","M">>,              \* 46 QUANTUM
       <<"R","E","S","C","U","E">>,                  \* 47 RESCUE
       <<"S","E","A","S","O","N","S">>,              \* 48 SEASONS
       <<"T","H","O","U","G","H","T">>,              \* 49 THOUGHT
       <<"W","O","N","D","E","R">> >>                \* 50 WONDER

\* string.ascii_uppercase
ascii_uppercase ==
    <<"A","B","C","D","E","F","G","H","I","J","K","L","M",
      "N","O","P","Q","R","S","T","U","V","W","X","Y","Z">>

\* the lowercase letters, position by position the ones str.upper() maps to
\* ascii_uppercase
ascii_lowercase ==
    <<"a","b","c","d","e","f","g","h","i","j","k","l","m",
      "n","o","p","q","r","s","t","u","v","w","x","y","z">>

LetterCount == 7      \* len(set(seed)) != 7, len(letters) != 7, 7 - len(letters)
MaxAttempts == 50     \* attempts < 50
MinWordLen == 3       \* len(word) < 3
SeedBonusPoints == 10 \* bonus = 10
MilestoneEvery == 5   \* count % 5 == 0

----------------------------------------------------------------------------
(* Bounds of the exploration *)

MaxShuffle == 1   \* random.shuffle yields the rotations by 0..MaxShuffle places
MaxTyped == 1     \* letter buttons are clicked while the box holds fewer letters
MaxButton == 1    \* the letter buttons clicked are the first MaxButton ones

----------------------------------------------------------------------------
(* Python built-ins used by the code *)

SetOf(s) == {s[i] : i \in DOMAIN s}

Min(a, b) == IF a < b THEN a ELSE b
Max(a, b) == IF a < b THEN b ELSE a

\* ord() restricted to A-Z: the order Python compares upper-case strings by
Ord(c) == CHOOSE i \in DOMAIN ascii_uppercase : ascii_uppercase[i] = c

\* str.upper() on the lowercase letters
UpperOf ==
    [c \in SetOf(ascii_lowercase) |->
        ascii_uppercase[CHOOSE i \in DOMAIN ascii_lowercase : ascii_lowercase[i] = c]]

\* str.upper() on one character
UpperChar(c) == IF c \in DOMAIN UpperOf THEN UpperOf[c] ELSE c

\* str.upper()
Upper(s) == [i \in DOMAIN s |-> UpperChar(s[i])]

IsSpace(c) == c = " "

\* str.strip()
Strip(s) ==
    LET keep == {i \in DOMAIN s : ~IsSpace(s[i])}
    IN  IF keep = {} THEN <<>>
        ELSE LET lo == CHOOSE i \in keep : \A j \in keep : i <= j
                 hi == CHOOSE i \in keep : \A j \in keep : j <= i
             IN  SubSeq(s, lo, hi)

\* seq[:k], k possibly negative
SliceTo(s, k) ==
    IF k >= 0 THEN SubSeq(s, 1, Min(k, Len(s)))
    ELSE SubSeq(s, 1, Max(Len(s) + k, 0))

\* list(dict.fromkeys(s)): first occurrences, in order
DictFromKeys(s) ==
    LET first(i) == \A j \in 1..(i - 1) : s[j] # s[i]
        F[i \in 0..Len(s)] ==
            IF i = 0 THEN <<>>
            ELSE IF first(i) THEN Append(F[i - 1], s[i]) ELSE F[i - 1]
    IN  F[Len(s)]

\* a < b for upper-case strings
StrLess(a, b) ==
    \E k \in 1..(Min(Len(a), Len(b)) + 1) :
        /\ \A j \in 1..(k - 1) : a[j] = b[j]
        /\ \/ k > Len(a) /\ k <= Len(b)
           \/ k <= Len(a) /\ k <= Len(b) /\ Ord(a[k]) < Ord(b[k])

RECURSIVE Sorted(_)
\* sorted(S) of a set of upper-case strings
Sorted(S) ==
    IF S = {} THEN <<>>
    ELSE LET m == CHOOSE x \in S : \A y \in S : x = y \/ StrLess(x, y)
         IN  <<m>> \o Sorted(S \ {m})

Rotate(s, k) ==
    IF s = <<>> THEN s
    ELSE [i \in DOMAIN s |-> s[((i - 1 + k) % Len(s)) + 1]]

\* the outcomes of random.shuffle(s) that are explored
Shuffles(s) == {Rotate(s, k) : k \in 0..MaxShuffle}

\* the outcomes of random.choice(s)
Choices(s) == SetOf(s)

----------------------------------------------------------------------------
(* The dictionary and the texts a player enters *)

\* load_wordlist(): the words wordfreq returns, most frequent first; lower case,
\* some with an apostrophe, some equal once normalized
WORDLIST ==
    << <<"i","t">>,
       <<"a","i","n","'","t">>,
       <<"r","e","s","c","u","e">>,
       <<"p","a","i","n","t","e","r">>,
       <<"t","i","p">>,
       <<"a","i","n","t">>,
       <<"p","a","n">>,
       <<"r","e","p","a","i","n","t">>,
       <<"p","i","e">>,
       <<"r","a","p">> >>

\* texts typed into the "Your guess" box
Guesses ==
    { <<>>,
      <<" "," ">>,
      <<" ","P","a","i","n","t","e","r">>,
      <<"r","e","p","a","i","n","t"," ">>,
      <<"a","i","n","'","t">>,
      <<"A","I","N","T">>,
      <<"r","e","s","c","u","e">>,
      <<"i","t">>,
      <<"z","z">>,
      <<"-">> }

\* texts typed in the runs that find many words
ManyGuesses ==
    { <<>>,
      <<"p","a","i","n","t","e","r">>,
      <<"r","e","p","a","i","n","t">>,
      <<"t","i","p">>,
      <<"p","a","n">>,
      <<"p","i","e">>,
      <<"r","a","p">>,
      <<"z","z">> }

\* the seeds random.choice(SEEDS) returns in the runs with several games:
\* PAINTER and MOUNTAIN (7 distinct letters), RESCUE (5)
SeedDraws == {SEEDS[16], SEEDS[10], SEEDS[47]}

\* the seed random.choice(SEEDS) returns in the runs that find many words
OneSeedDraw == {SEEDS[16]}

\* every seed random.choice(SEEDS) can return
AllSeedDraws == SetOf(SEEDS)

----------------------------------------------------------------------------
(* src/app.py *)

\* the characters the pattern [^A-Z] spares
UpperLetters == SetOf(ascii_uppercase)

normalize(word) == SelectSeq(Upper(word), LAMBDA c : c \in UpperLetters)

\* mutant: the mandatory letter is not required
generate_valid_words_no_mandatory(letters_set, mand, wordlist) ==
    LET keeps(word) == /\ ~(Len(word) < MinWordLen)
                       /\ ~(SetOf(word) \ letters_set # {})
        valid == {normalize(wordlist[i]) : i \in DOMAIN wordlist}
    IN  Sorted({word \in valid : keeps(word)})

generate_valid_words(letters_set, mand, wordlist) ==
    LET keeps(word) == /\ ~(Len(word) < MinWordLen)
                       /\ ~(mand \notin SetOf(word))
                       /\ ~(SetOf(word) \ letters_set # {})
        valid == {normalize(wordlist[i]) : i \in DOMAIN wordlist}
    IN  Sorted({word \in valid : keeps(word)})

RECURSIVE SeedLoop(_, _, _)
\* the seeds the while loop of start_new_game can end with, `cur` being the
\* values seed can hold when the condition is evaluated with `attempts`
SeedLoop(cur, attempts, draws) ==
    LET again == {s \in cur : Cardinality(SetOf(s)) # LetterCount /\ attempts < MaxAttempts}
    IN  (cur \ again) \cup
        (IF again = {} THEN {} ELSE SeedLoop(draws, attempts + 1, draws))

\* seed after lines 59-63
PickSeed(draws) == SeedLoop(draws, 0, draws)

\* letters after lines 65-72, before the final shuffle
PaddedLetters(s) ==
    LET ls == DictFromKeys(s)
        extra == SelectSeq(ascii_uppercase, LAMBDA c : c \notin SetOf(ls))
    IN  IF Len(ls) # LetterCount
        THEN {ls \o SliceTo(e, LetterCount - Len(ls)) : e \in Shuffles(extra)}
        ELSE {ls}

\* the values start_new_game can store, over the outcomes of its random calls
start_new_game(draws) ==
    UNION { UNION { UNION { {
        [seed |-> s, letters |-> ls, mandatory |-> m,
         valid_words |-> generate_valid_words(SetOf(ls), m, WORDLIST),
         wordset |-> {normalize(WORDLIST[i]) : i \in DOMAIN WORDLIST}]
        : m \in Choices(ls) }
        : ls \in Shuffles(p) }
        : p \in PaddedLetters(s) }
        : s \in PickSeed(draws) }

\* mutant: the comparison the other way round
is_pangram_subset(word, letters_set) == SetOf(word) \subseteq letters_set

is_pangram(word, letters_set) == letters_set \subseteq SetOf(word)

\* mutant: the bonus goes to every pangram
SeedBonus_any_pangram(guess_norm, sd) ==
    IF is_pangram(guess_norm, SetOf(letters)) THEN SeedBonusPoints ELSE 0

\* bonus of handle_submit
SeedBonus(guess_norm, sd) ==
    IF started /\ guess_norm = normalize(sd) THEN SeedBonusPoints ELSE 0

\* mutant: the signal fires from the fifth word on
IsMilestone_from_fifth(count) == count >= MilestoneEvery

\* the milestone test of handle_submit
IsMilestone(count) == count % MilestoneEvery = 0

\* mutant: no test against the found words
Rejection_no_duplicate_check(guess_norm) ==
    IF ~started THEN "Word database not loaded"
    ELSE IF guess_norm \notin wordset THEN "Not a recognized word"
    ELSE IF \/ Len(guess_norm) < MinWordLen
            \/ SetOf(guess_norm) \ SetOf(letters) # {}
            \/ mandatory \notin SetOf(guess_norm)
         THEN "Not valid"
    ELSE ""

\* mutant: the letter constraints are tested before the dictionary
Rejection_letters_first(guess_norm) ==
    IF guess_norm \in SetOf(found) THEN "Already found"
    ELSE IF ~started THEN "Word database not loaded"
    ELSE IF \/ Len(guess_norm) < MinWordLen
            \/ SetOf(guess_norm) \ SetOf(letters) # {}
            \/ mandatory \notin SetOf(guess_norm)
         THEN "Not valid"
    ELSE IF guess_norm \notin wordset THEN "Not a recognized word"
    ELSE ""

\* the rejection handle_submit answers a non-empty guess with, "" when it accepts
Rejection(guess_norm) ==
    IF guess_norm \in SetOf(found) THEN "Already found"
    ELSE IF ~started THEN "Word database not loaded"
    ELSE IF guess_norm \notin wordset THEN "Not a recognized word"
    ELSE IF \/ Len(guess_norm) < MinWordLen
            \/ SetOf(guess_norm) \ SetOf(letters) # {}
            \/ mandatory \notin SetOf(guess_norm)
         THEN "Not valid"
    ELSE ""

\* mutant: the guess is appended to the found words before it is validated
handle_submit_append_first(box) ==
    LET guess == Upper(Strip(box))
        guess_norm == normalize(guess)
        rejection == Rejection(guess_norm)
        appended == Append(found, guess_norm)
    IN  IF guess = <<>>
        THEN [found |-> found, score |-> score, message |-> "", milestone |-> FALSE]
        ELSE IF rejection = "Already found"
        THEN [found |-> found, score |-> score, message |-> rejection, milestone |-> FALSE]
        ELSE IF rejection # ""
        THEN [found |-> appended, score |-> score, message |-> rejection, milestone |-> FALSE]
        ELSE LET points == Len(guess_norm)
                 bonus == SeedBonus(guess_norm, seed)
             IN  [found |-> appended,
                  score |-> score + points + bonus,
                  message |-> IF bonus # 0 THEN "Pangram!" ELSE "Nice",
                  milestone |-> IsMilestone(Len(appended))]

\* handle_submit with `box` in the text box: what it stores and emits
handle_submit(box) ==
    LET guess == Upper(Strip(box))
        guess_norm == normalize(guess)
        rejection == Rejection(guess_norm)
        same(msg) == [found |-> found, score |-> score, message |-> msg, milestone |-> FALSE]
    IN  IF guess = <<>> THEN same("")
        ELSE IF rejection # "" THEN same(rejection)
        ELSE LET points == Len(guess_norm)
                 bonus == SeedBonus(guess_norm, seed)
                 appended == Append(found, guess_norm)
             IN  [found |-> appended,
                  score |-> score + points + bonus,
                  message |-> IF bonus # 0 THEN "Pangram!" ELSE "Nice",
                  milestone |-> IsMilestone(Len(appended))]

\* main: the labels of the letter buttons, mandatory letter at the middle index
Display(ls, m) ==
    LET other == SelectSeq(ls, LAMBDA l : l # m)
        mid == Len(ls) \div 2
    IN  IF ls = <<>> THEN <<>>
        ELSE SubSeq(other, 1, mid) \o <<m>> \o SubSeq(other, mid + 1, Len(ls) - 1)

\* main: the words of the "Pangram found" banner
FoundPangrams(fnd, ls) == SelectSeq(fnd, LAMBDA w : is_pangram(w, SetOf(ls)))

----------------------------------------------------------------------------
(* One action per script run *)

Init ==
    /\ started = FALSE
    /\ seed = <<>>
    /\ letters = <<>>
    /\ mandatory = ""
    /\ valid_words = <<>>
    /\ wordset = {}
    /\ found = <<>>
    /\ score = 0
    /\ guess_input = <<>>
    /\ show_pangram = FALSE
    /\ ui_letters = <<>>
    /\ ui_mandatory = ""
    /\ ui_pangrams = <<>>
    /\ message = ""
    /\ milestone = FALSE
    /\ run = "none"
    /\ submitted = <<>>

\* st.session_state.update(...) of start_new_game
StoreGame(g) ==
    /\ started' = TRUE
    /\ seed' = g.seed
    /\ letters' = g.letters
    /\ mandatory' = g.mandatory
    /\ valid_words' = g.valid_words
    /\ wordset' = g.wordset
    /\ found' = <<>>
    /\ score' = 0
    /\ guess_input' = <<>>
    /\ show_pangram' = FALSE

\* the sessions start_new_game creates, by the seeds drawn
NewGames == start_new_game(SeedDraws)
OneSeedGames == start_new_game(OneSeedDraw)
AllSeedGames == start_new_game(AllSeedDraws)

\* first run of main: no "letters" in the session, start_new_game, then render
InitialLoad(games) ==
    /\ ~started
    /\ \E g \in games :
        /\ StoreGame(g)
        /\ ui_letters' = Display(g.letters, g.mandatory)
        /\ ui_mandatory' = g.mandatory
    /\ ui_pangrams' = <<>>
    /\ message' = ""
    /\ milestone' = FALSE
    /\ run' = "load"
    /\ submitted' = <<>>

\* click on the i-th letter button: append_letter(L), then main
ClickLetter(i) ==
    /\ started
    /\ i \in 1..Min(MaxButton, Len(ui_letters))
    /\ Len(guess_input) < MaxTyped
    /\ guess_input' = Append(guess_input, ui_letters[i])
    /\ ui_letters' = Display(letters, mandatory)
    /\ ui_mandatory' = mandatory
    /\ ui_pangrams' = FoundPangrams(found, letters)
    /\ message' = ""
    /\ milestone' = FALSE
    /\ run' = "letter"
    /\ submitted' = <<>>
    /\ UNCHANGED <<started, seed, letters, mandatory, valid_words, wordset,
                   found, score, show_pangram>>

\* click on Submit with `box` in the text box: handle_submit, then main
ClickSubmit(box) ==
    /\ started
    /\ \E r \in {handle_submit(box)} :
           /\ found' = r.found
           /\ score' = r.score
           /\ message' = r.message
           /\ milestone' = r.milestone
           /\ ui_pangrams' = FoundPangrams(r.found, letters)
    /\ guess_input' = <<>>
    /\ ui_letters' = Display(letters, mandatory)
    /\ ui_mandatory' = mandatory
    /\ run' = "submit"
    /\ submitted' = box
    /\ UNCHANGED <<started, seed, letters, mandatory, valid_words, wordset,
                   show_pangram>>

\* click on Show Pangrams: main, which sets show_pangram
ClickShowPangrams ==
    /\ started
    /\ show_pangram' = TRUE
    /\ ui_letters' = Display(letters, mandatory)
    /\ ui_mandatory' = mandatory
    /\ ui_pangrams' = FoundPangrams(found, letters)
    /\ message' = ""
    /\ milestone' = FALSE
    /\ run' = "show"
    /\ submitted' = <<>>
    /\ UNCHANGED <<started, seed, letters, mandatory, valid_words, wordset,
                   found, score, guess_input>>

\* click on New Game: main renders the letters, then st.button("New Game")
\* is true and start_new_game runs, then the rest of the page is rendered
ClickNewGame(games) ==
    /\ started
    /\ ui_letters' = Display(letters, mandatory)
    /\ ui_mandatory' = mandatory
    /\ \E g \in games :
        /\ StoreGame(g)
        /\ ui_pangrams' = FoundPangrams(<<>>, g.letters)
    /\ message' = ""
    /\ milestone' = FALSE
    /\ run' = "newgame"
    /\ submitted' = <<>>

ClickSomeLetter == \E i \in 1..MaxButton : ClickLetter(i)

Submit(texts) == \E box \in texts \cup {guess_input} : ClickSubmit(box)

\* sessions of several games
Next ==
    \/ InitialLoad(NewGames)
    \/ ClickSomeLetter
    \/ Submit(Guesses)
    \/ ClickShowPangrams
    \/ ClickNewGame(NewGames)

Spec == Init /\ [][Next]_vars

\* the submissions of the first game of a session, over every seed of SEEDS
NextFirstGame ==
    \/ InitialLoad(AllSeedGames)
    \/ Submit(Guesses)

SpecFirstGame == Init /\ [][NextFirstGame]_vars

\* games in which more than MilestoneEvery words can be found
NextManyWords ==
    \/ InitialLoad(OneSeedGames)
    \/ Submit(ManyGuesses)
    \/ ClickNewGame(OneSeedGames)

SpecManyWords == Init /\ [][NextManyWords]_vars

----------------------------------------------------------------------------
(* Vocabulary of the properties *)

Accepted == {"Nice", "Pangram!"}

\* the normalized guess handle_submit derives from the text in the box
NormOf(box) == normalize(Upper(Strip(box)))

NoDuplicates(s) == \A i, j \in DOMAIN s : i # j => s[i] # s[j]

IsPrefix(s, t) == Len(s) <= Len(t) /\ SubSeq(t, 1, Len(s)) = s

UsesAll(w, ls) == \A l \in SetOf(ls) : \E i \in DOMAIN w : w[i] = l

\* the normalized dictionary
Dictionary == {normalize(WORDLIST[i]) : i \in DOMAIN WORDLIST}

\* the three conditions of a valid word
Fits(w) ==
    /\ Len(w) >= MinWordLen
    /\ \E i \in DOMAIN w : w[i] = mandatory
    /\ \A i \in DOMAIN w : \E j \in DOMAIN letters : letters[j] = w[i]

----------------------------------------------------------------------------
(* C1: after start_new_game, whatever its random choices, the stored      *)
(* letters are exactly 7 distinct upper-case letters and the mandatory     *)
(* letter is one of them.                                                  *)
C1_LetterSetWellFormed ==
    started =>
        /\ Len(letters) = LetterCount
        /\ Cardinality(SetOf(letters)) = LetterCount
        /\ SetOf(letters) \subseteq UpperLetters
        /\ mandatory \in SetOf(letters)

(* C2: in every reachable session state the stored valid words are exactly *)
(* the normalized dictionary words of length >= 3 that contain the current *)
(* mandatory letter and use only current letters, without duplicates, in   *)
(* ascending order.                                                        *)
C2_ValidWordSetExact ==
    started =>
        /\ SetOf(valid_words) = {w \in Dictionary : Fits(w)}
        /\ \A i, j \in DOMAIN valid_words :
               i < j => StrLess(valid_words[i], valid_words[j])

\* a game with several valid words, one of them twice in the word list, and
\* dictionary words each of the conditions excludes, after a word was found
C2_Witness ==
    /\ started
    /\ found # <<>>
    /\ Len(valid_words) >= 4
    /\ <<"A","I","N","T">> \in SetOf(valid_words)
    /\ \E w \in Dictionary : Len(w) < MinWordLen
    /\ \E w \in Dictionary : Len(w) >= MinWordLen /\ mandatory \notin SetOf(w)
    /\ \E w \in Dictionary : ~(SetOf(w) \subseteq SetOf(letters))

(* C3: the score never decreases over the submissions of a session; an     *)
(* accepted guess adds exactly the length of the normalized word, plus 10  *)
(* iff it equals the normalized seed; no other Submit run changes it.      *)
C3_ScoreSteps ==
    [][/\ score' >= score
       /\ run' = "submit" =>
            \A w \in {NormOf(submitted')} :
                IF found' = Append(found, w)
                THEN score' = score + Len(w)
                              + (IF w = normalize(seed) THEN SeedBonusPoints ELSE 0)
                ELSE found' = found /\ score' = score]_vars

\* the seed was found, with the bonus, after another word was found without
C3_Witness ==
    /\ message = "Pangram!"
    /\ Len(found) >= 2
    /\ score = Len(found[1]) + Len(found[2]) + SeedBonusPoints

(* C4: submitting any text whose normalization is a found word is answered *)
(* "Already found" and changes neither score nor found words; the found    *)
(* words never hold a word twice and keep the order of first acceptance.   *)
C4_DuplicateRejected ==
    [][run' = "submit" =>
         /\ NormOf(submitted') \in SetOf(found) =>
                message' = "Already found" /\ score' = score /\ found' = found
         /\ NoDuplicates(found')
         /\ IsPrefix(found, found')]_vars

\* a found word was submitted again, spelled differently
C4_Witness ==
    /\ message = "Already found"
    /\ Len(found) >= 2
    /\ submitted \notin SetOf(found)
    /\ NormOf(submitted) = found[1]

\* the answers C5 allows for the normalized guess w
C5_Answers(w) ==
    IF w \in SetOf(found) THEN {"Already found"}
    ELSE IF w \notin wordset THEN {"Not a recognized word"}
    ELSE IF ~Fits(w) THEN {"Not valid"}
    ELSE Accepted

(* C5: a non-empty guess gets exactly one answer, decided in this order:   *)
(* duplicate if already found, else unknown if not in the dictionary       *)
(* lookup set, else invalid if shorter than 3, using a letter outside the  *)
(* letters or lacking the mandatory letter, else accepted.                 *)
C5_OutcomeOrder ==
    [][run' = "submit" /\ Upper(Strip(submitted')) # <<>> =>
         \A w \in {NormOf(submitted')} :
             /\ message' \in C5_Answers(w)
             /\ message' \in Accepted <=> found' = Append(found, w)]_vars

\* a dictionary word that does not fit the letters was answered "Not valid"
C5_Witness ==
    /\ run = "submit"
    /\ message = "Not valid"
    /\ NormOf(submitted) \in wordset
    /\ Len(NormOf(submitted)) >= MinWordLen

(* C6: a submission that is not accepted (empty, whitespace, duplicate,    *)
(* unknown, invalid) leaves score, found words, letters, mandatory letter, *)
(* seed, valid words and lookup set unchanged, and a guess that meets all  *)
(* acceptance conditions and is not yet found is accepted and scored.      *)
C6_RejectionFrame ==
    [][run' = "submit" =>
         \A w \in {NormOf(submitted')} :
             /\ message' \notin Accepted =>
                    UNCHANGED <<score, found, letters, mandatory, seed,
                                valid_words, wordset>>
             /\ (w \in wordset /\ Fits(w) /\ w \notin SetOf(found)) =>
                    /\ message' \in Accepted
                    /\ found' = Append(found, w)
                    /\ score' >= score + Len(w)]_vars

\* a rejection in a session that has found words
C6_Witness ==
    /\ run = "submit"
    /\ message \in {"Not valid", "Not a recognized word"}
    /\ score > 0

(* C7: the milestone signal fires in a run iff that run accepts a word and *)
(* the resulting number of found words is a multiple of 5: once for the    *)
(* 5th word, not for the 4th or 6th, nor for empty or rejected submissions *)
(* made while the count is 5.                                              *)
C7_Milestone ==
    [][milestone' <=>
         /\ run' = "submit"
         /\ Len(found') = Len(found) + 1
         /\ Len(found') % MilestoneEvery = 0]_vars

\* the sixth word was accepted
C7_Witness ==
    /\ Len(found) = MilestoneEvery + 1
    /\ message \in Accepted
    /\ ~milestone

(* C8: is_pangram(w, letters) holds iff w uses every letter of the letter  *)
(* set, whether or not w is the seed, and the "Pangram found" banner lists *)
(* exactly the found words that pass this test.                            *)
C8_PangramList ==
    started =>
        /\ \A w \in wordset : is_pangram(w, SetOf(letters)) <=> UsesAll(w, letters)
        /\ ui_pangrams = SelectSeq(found, LAMBDA w : UsesAll(w, letters))

\* a found word that uses all the letters and is not the seed is listed
C8_Witness ==
    /\ started
    /\ \E i \in DOMAIN ui_pangrams : ui_pangrams[i] # normalize(seed)

(* C9: whenever handle_submit awards the seed bonus, announced "Pangram!", *)
(* the accepted word is a pangram of the session's letters.                *)
C9_BonusImpliesPangram ==
    message = "Pangram!" => is_pangram(found[Len(found)], SetOf(letters))

(* C10: at the end of every script run the letter buttons and the          *)
(* mandatory letter indicator show the letters and the mandatory letter    *)
(* stored in the session at the end of that run.                           *)
C10_PageShowsSession ==
    started =>
        /\ Len(ui_letters) = Len(letters)
        /\ SetOf(ui_letters) = SetOf(letters)
        /\ ui_mandatory = mandatory

====
